---- MODULE Spec2Model ----
(***************************************************************************)
(* Model of Downloader.download (ae_downloader_light.py): one request that *)
(* resolves the UTM zone of a point, looks up the asset, builds the four   *)
(* candidate shard names, probes them in order, reads an N x N window from *)
(* the matched shard, optionally de-quantizes it and saves it.             *)
(*                                                                         *)
(* Remote collaborators (projection service, catalog, S3 archive, local    *)
(* raster writer) are environment: what they hold is fixed in the initial  *)
(* state (proj, bounds, pixels), whether a call to them raises is chosen   *)
(* when the call is made.                                                  *)
(***************************************************************************)
EXTENDS Integers, Sequences, FiniteSets, TLC

\* ---------------------------------------------------------------- bounds
ShardW == 4        \* width of one shard file, in pixels (1 pixel = 1 unit)
ShardH == 3        \* height of one shard file, in pixels
MaxTile == 5       \* largest tile_size tried
MaxUlps == 2       \* how many doubles below an integer longitude are tried
DataLen == 2       \* number of pixel values carried for a window

\* ------------------------------------------------------ program constants
Year == 2022
NoData == -128

\* Python's None for the variables that hold a string, and for target_file,
\* which holds an index into filenames.
None == "None"
NoFile == 0

VARIABLES
    pc,            \* position of download(): the call it is about to make
    lat, lon,      \* request arguments; lon is a double, see LonValues
    tile_size,     \* self.tile_size
    dequantize,    \* self.dequantize
    proj,          \* what the projection service answers for (lat, lon)
    bounds,        \* archive: src.bounds of the .vrt of each candidate
    pixels,        \* archive: the values src.read returns for a window
    utm_data,      \* result of _get_utm_zone
    gee_asset_id,  \* result of _get_asset_id
    filenames,     \* result of _construct_candidate_file_names
    target_file,   \* index into filenames, NoFile for None
    probes,        \* candidates opened by _check_file_for_point, in order
    reads,         \* windows handed to src.read, in order
    src,           \* what _read_file saw: width, height, row, col, naive offsets
    raw,           \* the array object returned by src.read
    data,          \* the local `data` of download()
    profile,       \* the local `profile` of download()
    centered,      \* the local `centered` of download()
    dirs,          \* output directories that exist
    written,       \* output files written, in order
    err,           \* exception that left download(), None while running
    failed_in      \* the call that raised it

vars == <<pc, lat, lon, tile_size, dequantize, proj, bounds, pixels, utm_data,
          gee_asset_id, filenames, target_file, probes, reads, src, raw, data,
          profile, centered, dirs, written, err, failed_in>>

\* ------------------------------------------------- _get_utm_zone (62-92)
(***************************************************************************)
(* lat and lon are Python floats (IEEE-754 binary64).  A longitude is      *)
(* modelled exactly as the integer degree deg minus below doubles: the     *)
(* value deg itself (below = 0) or the below-th double under deg.  Integer *)
(* degrees up to 360 and their close neighbours are doubles, so the only   *)
(* rounding in  lon + 180  is the one of the fraction  below * ulp(lon).   *)
(***************************************************************************)
RECURSIVE FloorLog2(_)
FloorLog2(n) == IF n <= 1 THEN 0 ELSE 1 + FloorLog2(n \div 2)

RECURSIVE Pow2(_)
Pow2(n) == IF n <= 0 THEN 1 ELSE 2 * Pow2(n - 1)

\* Exponent j of the binade [2^j, 2^(j+1)) holding the doubles just under
\* the integer d (for d < 0 these have the larger magnitude).  Below zero
\* the next doubles are subnormal.
BinadeBelow(d) ==
    IF d > 1 THEN FloorLog2(d - 1)
    ELSE IF d = 1 THEN -1
    ELSE IF d = 0 THEN -1022
    ELSE FloorLog2(-d)

\* k / 2^m rounded to the nearest integer, ties to the even one.
RoundHalfEven(k, m) ==
    IF m >= 30 THEN 0
    ELSE LET q == Pow2(m)
             n == k \div q
             r == k % q
         IN  IF 2 * r > q THEN n + 1
             ELSE IF 2 * r = q THEN n + (n % 2)
             ELSE n

\* fl(lon + 180) as the integer s minus `below` doubles (line 68).  The sum
\* is exact when its doubles are at least as fine as those of lon; otherwise
\* the fraction is rounded to the coarser grid, ties to even (s is even on
\* that grid).
AddOffset(l) ==
    LET s == l.deg + 180
        m == BinadeBelow(s) - BinadeBelow(l.deg)
    IN  [deg |-> s,
         below |-> IF l.below = 0 THEN 0
                   ELSE IF m <= 0 THEN l.below
                   ELSE RoundHalfEven(l.below, m)]

\* math.floor(x / 6) for x = s minus a few doubles: the quotient of a double
\* under 6n by 6 is at least 2/3 of a double under n, so it never rounds to n.
FloorDiv6(x) == IF x.below = 0 THEN x.deg \div 6 ELSE (x.deg - 1) \div 6

Zone(l) == FloorDiv6(AddOffset(l)) + 1

\* lat >= 0 for a latitude given in whole degrees
Hemisphere(la) == IF la >= 0 THEN "N" ELSE "S"
Epsg(la, l) == IF la >= 0 THEN 32600 + Zone(l) ELSE 32700 + Zone(l)

GetUtmZone(la, l, coords) ==
    [zone |-> Zone(l), hemisphere |-> Hemisphere(la), epsg |-> Epsg(la, l),
     easting |-> coords.x, northing |-> coords.y]

\* Doubles in [-180, 180) the model draws longitudes from.
LonValues(degs) ==
    {l \in [deg : degs, below : 0..MaxUlps] :
        /\ l.deg = -180 => l.below = 0
        /\ l.deg = 180 => l.below > 0}

\* l1 <= l2 as real numbers (both within a few doubles of an integer)
LonLeq(l1, l2) ==
    \/ l1.deg < l2.deg
    \/ l1.deg = l2.deg /\ l1.below >= l2.below


\* ------------------------------------------------- _get_asset_id (95-117)
AssetId == "x02qcrn30k70b9ql6"

\* image.getInfo() of filtered.first(): None for an empty collection (114-115),
\* else the last path component of the id (117).
GetAssetId(info) == IF info = None THEN None ELSE AssetId

\* ---------------------------- _construct_candidate_file_names (120-122)
\* self.tge_labs_aef_file_endings (23-27): row offset, then column offset.
FileEndings == <<"-0000000000-0000000000.tiff",
                 "-0000000000-0000008192.tiff",
                 "-0000008192-0000000000.tiff",
                 "-0000008192-0000008192.tiff">>
NumFiles == Len(FileEndings)

ConstructCandidateFileNames(year, utm_zone, file_id) ==
    [k \in 1..NumFiles |->
        [year |-> year, zone |-> utm_zone, id |-> file_id,
         ending |-> FileEndings[k]]]

\* str(utm_data["zone"]) + utm_data["hemisphere"] (line 40)
ZoneTag(u) == <<u.zone, u.hemisphere>>

\* ------------------------------------------ _check_file_for_point (125-140)
\* variant: the right and top edges are excluded
CheckFileForPoint_Exclusive(utm_x, utm_y, b) ==
    /\ b.left <= utm_x /\ utm_x < b.right
    /\ b.bottom <= utm_y /\ utm_y < b.top

CheckFileForPoint(utm_x, utm_y, b) ==
    /\ b.left <= utm_x /\ utm_x <= b.right
    /\ b.bottom <= utm_y /\ utm_y <= b.top

\* ------------------------------------------------------ the archive
\* One shard covers ShardW x ShardH pixels of one unit each; the four
\* quadrants of an asset share their inner edges.
Quadrant(qx, qy) ==
    [left |-> qx * ShardW, right |-> (qx + 1) * ShardW,
     bottom |-> qy * ShardH, top |-> (qy + 1) * ShardH]
Boxes == {Quadrant(qx, qy) : qx \in 0..1, qy \in 0..1}

\* The layout the file endings name: rows from the top, columns from the left.
GridLayout == <<Quadrant(0, 1), Quadrant(1, 1), Quadrant(0, 0), Quadrant(1, 0)>>
\* Every assignment of a quadrant to each candidate, overlapping ones included.
AllLayouts == [1..NumFiles -> Boxes]

\* Projected points: on the asset, on its edges, and one unit outside it.
Points == [x : 0..(2 * ShardW + 1), y : 0..(2 * ShardH + 1)]

\* src.width, src.height and src.index(x, y) of a file with these bounds
\* (north-up geotransform, pixel size 1).
SrcWidth(b) == b.right - b.left
SrcHeight(b) == b.top - b.bottom
SrcIndex(b, utm_x, utm_y) == [row |-> b.top - utm_y, col |-> utm_x - b.left]

\* ------------------------------------------------------ _read_file (143-186)
Max(a, b) == IF a >= b THEN a ELSE b
Min(a, b) == IF a <= b THEN a ELSE b

\* lines 156-159: offsets before clamping
NaiveOff(idx, N) == idx - (N \div 2)

\* variant: only the column offset is checked
IsCentered_ColumnOnly(col_off, row_off, width, height, N) ==
    IF col_off < 0 \/ width - N < col_off THEN FALSE ELSE TRUE

\* lines 160-168
IsCentered(col_off, row_off, width, height, N) ==
    LET c1 == IF col_off < 0 \/ width - N < col_off THEN FALSE ELSE TRUE
        c2 == IF row_off < 0 \/ height - N < row_off THEN FALSE ELSE c1
    IN  c2

\* lines 170-171
ClampOff(off, dim, N) == Max(0, Min(off, dim - N))

\* lines 173-183: the window and the profile derived from it
ReadWindow(b, utm_x, utm_y, N) ==
    LET idx == SrcIndex(b, utm_x, utm_y)
        col_off == NaiveOff(idx.col, N)
        row_off == NaiveOff(idx.row, N)
    IN  [width |-> SrcWidth(b), height |-> SrcHeight(b),
         row |-> idx.row, col |-> idx.col,
         naive_col_off |-> col_off, naive_row_off |-> row_off,
         centered |-> IsCentered(col_off, row_off, SrcWidth(b), SrcHeight(b), N),
         col_off |-> ClampOff(col_off, SrcWidth(b), N),
         row_off |-> ClampOff(row_off, SrcHeight(b), N),
         size |-> N]

WindowProfile(b, w) ==
    [driver |-> "GTiff", dtype |-> "int8", width |-> w.size, height |-> w.size,
     x0 |-> b.left + w.col_off, y0 |-> b.top - w.row_off, nodata |-> NoData]

\* ------------------------------------------------------ _dequantize (189-203)
Sign(v) == IF v > 0 THEN 1 ELSE IF v < 0 THEN -1 ELSE 0

\* An array element is NaN or the fraction num / den (den > 0); an int8
\* element v is v / 1.  The values that occur, k / 65025 with |k| <= 65536,
\* are far apart on the float32 grid, so the fractions stand for distinct
\* floats of the same sign.
Float(n, d) == [nan |-> FALSE, num |-> n, den |-> d]
Int8(v) == Float(v, 1)
NaN == [nan |-> TRUE, num |-> 0, den |-> 1]

\* x / 127.5, written 2x / 255
DivHalfScale(x) == Float(2 * x.num, 255 * x.den)
Square(x) == Float(x.num * x.num, x.den * x.den)
TimesSign(x, y) == Float(x.num * Sign(y.num), x.den)

\* variant: the mask is taken from the result instead of the input
Dequantize_MaskOnResult(d) ==
    LET values_float == d
        result == [k \in DOMAIN d |->
                     TimesSign(Square(DivHalfScale(values_float[k])),
                               values_float[k])]
        nodata_mask == [k \in DOMAIN d |->
                          result[k] = Int8(NoData)]
    IN  [k \in DOMAIN d |-> IF nodata_mask[k] THEN NaN ELSE result[k]]

Dequantize(d) ==
    LET nodata_mask == [k \in DOMAIN d |-> d[k] = Int8(NoData)]
        values_float == d       \* astype(np.float32) keeps every int8 value
        result == [k \in DOMAIN d |->
                     TimesSign(Square(DivHalfScale(values_float[k])),
                               values_float[k])]
    IN  [k \in DOMAIN d |-> IF nodata_mask[k] THEN NaN ELSE result[k]]

\* int8 values the archive holds in the model
Int8Samples == {Int8(v) : v \in {NoData, -127, -1, 0, 1, 127}}

\* ================================================================ actions
\* variant: download() records the exception and goes on to save
Raise_Swallowed(e) ==
    /\ pc' = "_save_tile"
    /\ err' = e
    /\ failed_in' = pc

\* download() has no handler: an exception raised by a call leaves it
Raise(e) ==
    /\ pc' = "failed"
    /\ err' = e
    /\ failed_in' = pc

request == <<lat, lon, tile_size, dequantize>>
remote == <<proj, bounds, pixels>>
disk == <<dirs, written>>
window == <<reads, src, raw, data, profile, centered>>

\* line 37
GetUtmZoneCall ==
    /\ pc = "_get_utm_zone"
    /\ \/ /\ utm_data' = GetUtmZone(lat, lon, proj)
          /\ pc' = "_get_asset_id"
          /\ UNCHANGED <<err, failed_in>>
       \/ /\ Raise("EEException")       \* point.transform / getInfo fails
          /\ UNCHANGED utm_data
    /\ UNCHANGED <<request, remote, disk, window, gee_asset_id, filenames,
                   target_file, probes>>

\* line 38
GetAssetIdCall ==
    /\ pc = "_get_asset_id"
    /\ \/ \E info \in {None, "GOOGLE/SATELLITE_EMBEDDING/V1/ANNUAL/x02qcrn30k70b9ql6"} :
            /\ gee_asset_id' = GetAssetId(info)
            /\ pc' = "_construct_candidate_file_names"
            /\ UNCHANGED <<err, failed_in>>
       \/ /\ Raise("EEException")       \* image.getInfo() fails
          /\ UNCHANGED gee_asset_id
    /\ UNCHANGED <<request, remote, disk, window, utm_data, filenames,
                   target_file, probes>>

\* lines 40-42: file_id + suffix raises TypeError for file_id = None
ConstructCandidateFileNamesCall ==
    /\ pc = "_construct_candidate_file_names"
    /\ IF gee_asset_id = None
       THEN /\ Raise("TypeError")
            /\ UNCHANGED <<filenames, target_file>>
       ELSE /\ filenames' = ConstructCandidateFileNames(Year, ZoneTag(utm_data),
                                                        gee_asset_id)
            /\ target_file' = NoFile
            /\ pc' = "_check_file_for_point"
            /\ UNCHANGED <<err, failed_in>>
    /\ UNCHANGED <<request, remote, disk, window, utm_data, gee_asset_id, probes>>

\* lines 43-48: one iteration of the loop over filenames
CheckFileForPointCall ==
    /\ pc = "_check_file_for_point"
    /\ LET file == Len(probes) + 1 IN
       /\ probes' = Append(probes, file)
       /\ \/ /\ Raise("RasterioIOError")    \* rasterio.open(vrt_path) fails
             /\ UNCHANGED target_file
          \/ /\ IF CheckFileForPoint(utm_data.easting, utm_data.northing,
                                     bounds[file])
                THEN /\ target_file' = file
                     /\ pc' = "_read_file"
                ELSE /\ UNCHANGED target_file
                     /\ pc' = IF file = Len(filenames)
                              THEN "_read_file"
                              ELSE "_check_file_for_point"
             /\ UNCHANGED <<err, failed_in>>
    /\ UNCHANGED <<request, remote, disk, window, utm_data, gee_asset_id,
                   filenames>>

\* line 173: rasterio.windows.Window(col_off, row_off, tile_size, tile_size)
Window(file, w) ==
    [file |-> file, col_off |-> w.col_off, row_off |-> w.row_off,
     width |-> w.size, height |-> w.size]

\* line 51: filename.replace raises AttributeError for filename = None
ReadFileCall ==
    /\ pc = "_read_file"
    /\ \/ /\ target_file = NoFile
          /\ Raise("AttributeError")
          /\ UNCHANGED window
       \/ /\ target_file # NoFile
          /\ Raise("RasterioIOError")       \* rasterio.open fails
          /\ UNCHANGED window
       \/ /\ target_file # NoFile
          /\ src' = ReadWindow(bounds[target_file], utm_data.easting,
                               utm_data.northing, tile_size)
          /\ reads' = Append(reads, Window(target_file, src'))
          /\ \/ /\ Raise("RasterioIOError")   \* src.read fails
                /\ UNCHANGED <<raw, data, profile, centered>>
             \/ /\ raw' = pixels
                /\ data' = pixels
                /\ profile' = WindowProfile(bounds[target_file], src')
                /\ centered' = src'.centered
                /\ pc' = IF dequantize THEN "_dequantize" ELSE "_save_tile"
                /\ UNCHANGED <<err, failed_in>>
    /\ UNCHANGED <<request, remote, disk, utm_data, gee_asset_id, filenames,
                   target_file, probes>>

\* lines 53-55
DequantizeCall ==
    /\ pc = "_dequantize"
    /\ data' = Dequantize(data)
    /\ profile' = [profile EXCEPT !.dtype = "float32"]
    /\ pc' = "_save_tile"
    /\ UNCHANGED <<request, remote, disk, utm_data, gee_asset_id, filenames,
                   target_file, probes, reads, src, raw, centered, err,
                   failed_in>>

\* variant: the suffix does not depend on the flag
OutputFile_AlwaysCentered(year, msg) == [dir |-> year, centered |-> TRUE]

\* line 211
OutputFile(year, msg) == [dir |-> year, centered |-> msg]

\* line 58
SaveTileCall ==
    /\ pc = "_save_tile"
    /\ dirs' = dirs \cup {Year}
    /\ \/ /\ written' = Append(written, [file |-> OutputFile(Year, centered),
                                         profile |-> profile, data |-> data])
          /\ pc' = "done"
          /\ UNCHANGED <<err, failed_in>>
       \/ /\ Raise("RasterioIOError")    \* rasterio.open(output_file, "w") fails
          /\ UNCHANGED written
    /\ UNCHANGED <<request, remote, window, utm_data, gee_asset_id, filenames,
                   target_file, probes>>

Next ==
    \/ GetUtmZoneCall
    \/ GetAssetIdCall
    \/ ConstructCandidateFileNamesCall
    \/ CheckFileForPointCall
    \/ ReadFileCall
    \/ DequantizeCall
    \/ SaveTileCall

\* ========================================================== initial states
\* Locals of download() and _read_file() before their assignment.
Unbound ==
    [utm_data |-> [zone |-> 0, hemisphere |-> None, epsg |-> 0,
                   easting |-> 0, northing |-> 0],
     src |-> [width |-> 0, height |-> 0, row |-> 0, col |-> 0,
              naive_col_off |-> 0, naive_row_off |-> 0, centered |-> FALSE,
              col_off |-> 0, row_off |-> 0, size |-> 0],
     profile |-> [driver |-> None, dtype |-> None, width |-> 0, height |-> 0,
                  x0 |-> 0, y0 |-> 0, nodata |-> NoData]]

InitWith(lons, lats, sizes, flags, layouts, contents, projs) ==
    /\ pc = "_get_utm_zone"
    /\ lon \in lons
    /\ lat \in lats
    /\ tile_size \in sizes
    /\ dequantize \in flags
    /\ bounds \in layouts
    /\ pixels \in contents
    /\ proj \in projs
    /\ utm_data = Unbound.utm_data
    /\ gee_asset_id = None
    /\ filenames = <<>>
    /\ target_file = NoFile
    /\ probes = <<>>
    /\ reads = <<>>
    /\ src = Unbound.src
    /\ raw = <<>>
    /\ data = <<>>
    /\ profile = Unbound.profile
    /\ centered = FALSE
    /\ dirs = {}
    /\ written = <<>>
    /\ err = None
    /\ failed_in = None

SomeLon == [deg |-> 10, below |-> 0]
SomePixels == [k \in 1..DataLen |-> IF k = 1 THEN Int8(NoData) ELSE Int8(127)]
InsidePoint == [x |-> 1, y |-> ShardH + 1]
OutsidePoint == [x |-> 2 * ShardW + 1, y |-> 0]

\* Requests over every archive layout and every projected point.
Init ==
    InitWith({SomeLon}, {47}, {2, MaxTile}, BOOLEAN, AllLayouts, {SomePixels},
             Points)
Spec == Init /\ [][Next]_vars

\* Requests over the longitudes next to every whole degree.
InitZone ==
    InitWith(LonValues(-180..180), {-1, 0, 1}, {2}, BOOLEAN, {GridLayout},
             {SomePixels}, {InsidePoint, OutsidePoint})
SpecZone == InitZone /\ [][Next]_vars

\* Requests over every tile size and every projected point.
InitWindow ==
    InitWith({SomeLon}, {47}, (-2)..MaxTile, BOOLEAN, {GridLayout},
             {SomePixels}, Points)
SpecWindow == InitWindow /\ [][Next]_vars

\* Requests over every content of the window.
InitDequantize ==
    InitWith({SomeLon}, {47}, {2}, BOOLEAN, {GridLayout},
             [1..DataLen -> Int8Samples], {InsidePoint, OutsidePoint})
SpecDequantize == InitDequantize /\ [][Next]_vars

\* ================================================================= claims
\* Where a finished or running request stands.
Steps == <<"_get_utm_zone", "_get_asset_id", "_construct_candidate_file_names",
           "_check_file_for_point", "_read_file", "_dequantize", "_save_tile",
           "done">>
StepNo(name) == CHOOSE k \in DOMAIN Steps : Steps[k] = name
\* the request got past the call `name` without that call raising
Passed(name) ==
    IF pc = "failed" THEN StepNo(failed_in) > StepNo(name)
                     ELSE StepNo(pc) > StepNo(name)
Finished == pc \in {"done", "failed"}

\* The point lies in the bounds of candidate k, both ends inclusive.
Contains(k) ==
    /\ bounds[k].left <= utm_data.easting
    /\ utm_data.easting <= bounds[k].right
    /\ bounds[k].bottom <= utm_data.northing
    /\ utm_data.northing <= bounds[k].top
Matching == {k \in 1..4 : Contains(k)}
FirstMatching == CHOOSE k \in Matching : \A j \in Matching : k <= j

\* C1: the candidates are probed in list order, no candidate is probed after
\* one that contains the point, and when the loop is over the target is the
\* first candidate containing the point (bounds inclusive) and the number of
\* probes is its index, or 4 with no target when none contains it.
C1_FirstMatchShortCircuit ==
    /\ \A k \in DOMAIN probes : probes[k] = k
    /\ Len(probes) > 0 =>
          \A k \in 1..(Len(probes) - 1) : ~Contains(k)
    /\ Passed("_check_file_for_point") =>
          IF Matching = {}
          THEN target_file = NoFile /\ Len(probes) = 4
          ELSE target_file = FirstMatching /\ Len(probes) = FirstMatching

\* the point is on the right edge of the second candidate, which is selected
\* although the fourth contains the point as well
C1_Witness ==
    /\ Passed("_check_file_for_point")
    /\ target_file = 2 /\ Len(probes) = 2
    /\ utm_data.easting = bounds[2].right
    /\ Contains(4)

\* C2: a request whose four probes all succeeded and found no containing
\* candidate ends with NoMatchingTile, without a read and without a file.
C2_NoMatchingTile ==
    (Finished /\ Passed("_check_file_for_point") /\ Matching = {}) =>
        /\ pc = "failed" /\ err = "NoMatchingTile"
        /\ reads = <<>> /\ written = <<>>

\* C3: a request for which the catalog had no image ends with AssetNotFound,
\* with no candidate built or probed, no read and no file.
C3_AssetNotFound ==
    (Finished /\ Passed("_get_asset_id") /\ gee_asset_id = None) =>
        /\ pc = "failed" /\ err = "AssetNotFound"
        /\ filenames = <<>> /\ probes = <<>>
        /\ reads = <<>> /\ written = <<>>

\* C4: once a step before the Tile Writer has raised, the request is failed
\* with that error, and no output directory or file exists.
FailSteps == {"_get_utm_zone", "_get_asset_id", "_construct_candidate_file_names",
              "_check_file_for_point", "_read_file"}
C4_NoOutputAfterFailure ==
    (err # None /\ failed_in \in FailSteps) =>
        /\ pc = "failed"
        /\ written = <<>> /\ dirs = {}

\* the windowed read itself failed, after a successful match
C4_Witness ==
    /\ pc = "failed" /\ failed_in = "_read_file" /\ err = "RasterioIOError"
    /\ reads # <<>>

\* Width, height and pixel of the point in the target file, from its bounds.
FileWidth == bounds[target_file].right - bounds[target_file].left
FileHeight == bounds[target_file].top - bounds[target_file].bottom
PointCol == utm_data.easting - bounds[target_file].left
PointRow == bounds[target_file].top - utm_data.northing

\* C5: every window handed to the read lies inside the file.
C5_WindowInsideFile ==
    \A k \in DOMAIN reads :
        /\ 0 <= reads[k].col_off /\ reads[k].col_off <= FileWidth - tile_size
        /\ 0 <= reads[k].row_off /\ reads[k].row_off <= FileHeight - tile_size
        /\ reads[k].col_off + tile_size <= FileWidth
        /\ reads[k].row_off + tile_size <= FileHeight

\* C6: centered is true exactly when the offsets before clamping fit on both
\* axes; a point at least N pixels from every edge is centered, a point less
\* than N/2 (integer division) pixels from an edge is not.
C6_CenteredIffNaiveFits ==
    Passed("_read_file") =>
        LET half == tile_size \div 2 IN
        /\ centered = TRUE <=>
              /\ 0 <= PointCol - half /\ PointCol - half <= FileWidth - tile_size
              /\ 0 <= PointRow - half /\ PointRow - half <= FileHeight - tile_size
        /\ centered \in BOOLEAN
        /\ ( /\ tile_size > 0
             /\ tile_size <= PointCol /\ PointCol <= FileWidth - tile_size
             /\ tile_size <= PointRow /\ PointRow <= FileHeight - tile_size )
           => centered = TRUE
        /\ ( \/ PointCol < half \/ FileWidth - PointCol < half
             \/ PointRow < half \/ FileHeight - PointRow < half )
           => centered = FALSE

\* a window that fits in its columns and not in its rows
C6_Witness ==
    /\ Passed("_read_file") /\ centered = FALSE
    /\ 0 <= PointCol - (tile_size \div 2)
    /\ PointCol - (tile_size \div 2) <= FileWidth - tile_size
    /\ PointRow < tile_size \div 2

\* C7: a window is read only from the candidate the last probe matched, at
\* most once; a finished request has read once and written one file, whose
\* name carries the centered flag of that read.
C7_ReadMatchedOnceWriteOnce ==
    /\ reads # <<>> =>
          /\ Len(reads) = 1
          /\ target_file # NoFile /\ Contains(target_file)
          /\ probes # <<>> /\ probes[Len(probes)] = target_file
          /\ reads[1].file = target_file
    /\ written # <<>> =>
          /\ Len(written) = 1 /\ Len(reads) = 1 /\ pc = "done"
          /\ written[1].file.centered = src.centered
    /\ pc = "done" => Len(written) = 1

\* only the third candidate contains the point, and the request completed
\* with a window that is not centered
C7_Witness ==
    /\ pc = "done" /\ Matching = {3} /\ reads[1].file = 3
    /\ written[1].file.centered = FALSE

\* C8: no window is read and no file is written for a tile size that is not
\* positive or exceeds the file; such a request ends with InvalidArgument.
BadTileSize ==
    tile_size <= 0 \/ tile_size > FileWidth \/ tile_size > FileHeight
C8_InvalidArgument ==
    (target_file # NoFile /\ BadTileSize) =>
        /\ reads = <<>> /\ written = <<>>
        /\ pc # "done"
        /\ (pc = "failed" /\ reads # <<>>) => err = "InvalidArgument"

\* C9: for a longitude in [-180, 180) the zone is in 1..60 and not smaller
\* than the zone of any smaller longitude, and the EPSG code is in
\* 32601..32660 (lat >= 0) or 32701..32760 (lat < 0).
C9_ZoneRange ==
    Passed("_get_utm_zone") =>
        /\ utm_data.zone \in 1..60
        /\ \A l \in LonValues(-180..180) :
              LonLeq(l, lon) => Zone(l) <= utm_data.zone
        /\ lat >= 0 => utm_data.epsg \in 32601..32660
        /\ lat < 0 => utm_data.epsg \in 32701..32760

\* C10: the de-quantized array has the shape of the input; the sentinel -128
\* becomes NaN, every other v becomes sign(v) * (v / 127.5)^2, which is not
\* NaN and has the sign of v; the array that was read is unchanged.
C10_Dequantize ==
    (dequantize /\ Passed("_dequantize")) =>
        /\ DOMAIN data = DOMAIN raw
        /\ raw = pixels
        /\ \A k \in DOMAIN raw :
              IF raw[k].num = -128
              THEN data[k].nan
              ELSE /\ ~data[k].nan
                   /\ data[k].den = 255 * 255
                   /\ data[k].num = Sign(raw[k].num) * (2 * raw[k].num)
                                                     * (2 * raw[k].num)
                   /\ Sign(data[k].num) = Sign(raw[k].num)

\* a sentinel next to a negative value
C10_Witness ==
    /\ dequantize /\ Passed("_dequantize")
    /\ raw[1].num = -128 /\ raw[2].num = -127

====
